---------------------------- MODULE Spec2Model ----------------------------
(***************************************************************************)
(* Model of pdf_ripper.py: the page extractor (extract_pages_to_markdown), *)
(* the batch driver (process_batch) and the two modes of main().           *)
(*                                                                         *)
(* The external collaborators (PyMuPDF, tesseract, the filesystem) are     *)
(* modelled by what they answer: every PDF of the run has a page count and *)
(* a fault, the place where working on it fails, fixed for the whole       *)
(* behaviour (the inputs do not change between two runs).                  *)
(***************************************************************************)
EXTENDS Integers, Sequences, FiniteSets, TLC

(* ------------------------------ bounds -------------------------------- *)
MaxDocs == 3            \* PDFs in the books directory
MaxBatchPages == 1      \* pages of a PDF in a batch
MaxPages == 4           \* pages of the PDF of a single-document run
MaxNegChunk == 1        \* pages_per_chunk goes down to -MaxNegChunk
MaxChunkLog == 6        \* progress lines kept of one extraction

VARIABLES
    mode,               \* args.batch: "batch" or "single"
    books_dir_exists,   \* Path(books_dir).exists()
    pdfs,               \* the PDFs: name |-> [pages, fault]
    skip_existing,      \* not args.no_skip
    pages_per_chunk,    \* args.pages_per_chunk
    outExists,          \* names whose output file exists
    outContent,         \* name |-> content of its output file
    run,                \* 1 in the first invocation, 2 in the second
    prior_outputs,      \* outExists when the current invocation started
    main_pc,            \* position of main() / process_batch
    pdf_files,          \* process_batch: the sorted list
    total_books,
    index,
    processed,
    skipped,
    failed,
    outcomes,           \* outcomes recorded so far, as <<name, outcome>>
    summary,            \* the final summary, <<>> until printed
    ext_pc,             \* position of extract_pages_to_markdown
    cur,                \* the PDF being extracted
    total_pages,
    start_page,
    end_page,
    page_num,
    handles,            \* names whose fitz document is open
    exc,                \* class of the exception in flight
    chunks              \* progress lines of this extraction, <<start, end>>

vars == << mode, books_dir_exists, pdfs, skip_existing, pages_per_chunk,
           outExists, outContent, run, prior_outputs, main_pc, pdf_files,
           total_books, index, processed, skipped, failed, outcomes, summary,
           ext_pc, cur, total_pages, start_page, end_page, page_num, handles,
           exc, chunks >>

envVars == << mode, books_dir_exists, pdfs, skip_existing, pages_per_chunk >>
fileVars == << outExists, outContent >>
batchVars == << pdf_files, total_books, index, processed, skipped, failed,
                outcomes, summary >>
loopVars == << total_pages, start_page, end_page, page_num, chunks >>

(* ------------------------------ helpers ------------------------------- *)
Min(a, b) == IF a <= b THEN a ELSE b

\* The faults of a PDF with n pages: none, the path is gone, the file is not
\* a PDF, the output file cannot be created, rendering or OCR of page k fails.
Faults(n) ==
    { <<"ok", 0>>, <<"missing", 0>>, <<"open", 0>>, <<"write", 0>> }
        \cup { <<"page", k>> : k \in 1..n }

\* A PDF that cannot be opened has no page count, and where the output file
\* cannot be created the count is read but never used: both are listed with
\* 0 pages.
Profiles(maxp) ==
    { p \in [pages : 0..maxp, fault : UNION { Faults(n) : n \in 0..maxp }] :
        /\ p.fault \in Faults(p.pages)
        /\ p.fault[1] \in {"missing", "open", "write"} => p.pages = 0 }

RECURSIVE SortedSeq(_)
SortedSeq(S) ==
    IF S = {} THEN << >>
    ELSE LET m == CHOOSE x \in S : \A y \in S : x <= y
         IN  << m >> \o SortedSeq(S \ {m})

get_pdf_files == SortedSeq(DOMAIN pdfs)

Header(d, n) ==
    << <<"title", d, 0>>, <<"from", d, 0>>, <<"total", n, 0>>, <<"sep", 0, 0>> >>

Section(d, label) ==
    << <<"page", label, 0>>, <<"text", d, label>>, <<"blank", 0, 0>> >>

\* open(output_file, "w") truncates; "a" would keep the old content
TruncateAppendMode(old) == old
Truncate(old) == << >>

\* f"## Page {page_num + 1}"
PageLabelZeroBased(n) == n
PageLabel(n) == n + 1

\* end_page = min(start_page + pages_per_chunk, total_pages)
ChunkEndPageNoClamp(start, ppc, total) == start + ppc
ChunkEndPage(start, ppc, total) == Min(start + ppc, total)

\* if skip_existing and output_file.exists()
ShouldSkipIgnoresFlag(skip, exists) == exists
ShouldSkipIgnoresFile(skip, exists) == skip
ShouldSkip(skip, exists) == skip /\ exists

\* counter += 1
IncrAssign(n) == 1
Incr(n) == n + 1

\* except Exception: SystemExit derives from BaseException only
Catches(e) == e = "Exception"

(* ------------------------------- Init --------------------------------- *)
InitProcess ==
    /\ main_pc = "start"
    /\ pdf_files = << >>
    /\ total_books = 0
    /\ index = 0
    /\ processed = 0
    /\ skipped = 0
    /\ failed = 0
    /\ outcomes = << >>
    /\ summary = << >>
    /\ ext_pc = "idle"
    /\ cur = 0
    /\ total_pages = 0
    /\ start_page = 0
    /\ end_page = 0
    /\ page_num = 0
    /\ handles = {}
    /\ exc = "none"
    /\ chunks = << >>

InitSingle ==
    /\ mode = "single"
    /\ books_dir_exists = TRUE
    /\ skip_existing = TRUE
    /\ pdfs \in [1..1 -> Profiles(MaxPages)]
    /\ pages_per_chunk \in (0 - MaxNegChunk)..(MaxPages + 1)

InitBatch ==
    /\ mode = "batch"
    /\ books_dir_exists \in BOOLEAN
    /\ skip_existing \in BOOLEAN
    /\ \E n \in 0..MaxDocs :
          /\ pdfs \in [1..n -> Profiles(MaxBatchPages)]
          /\ ~books_dir_exists => n = 0
    /\ pages_per_chunk \in 0..(MaxBatchPages + 1)

Init ==
    /\ InitSingle \/ InitBatch
    /\ outExists = {}
    /\ outContent = [d \in DOMAIN pdfs |-> << >>]
    /\ run = 1
    /\ prior_outputs = {}
    /\ InitProcess

(* -------------------- extract_pages_to_markdown ----------------------- *)
Raise(e) ==
    /\ ext_pc' = "raised"
    /\ exc' = e

\* lines 123-140: the existence check, the parent directory, fitz.open
ExtractOpen ==
    /\ ext_pc = "called"
    /\ IF pdfs[cur].fault[1] = "missing"
         THEN /\ Raise("SystemExit")
              /\ UNCHANGED << handles, total_pages >>
       ELSE IF pdfs[cur].fault[1] = "open"
         THEN /\ Raise("Exception")
              /\ UNCHANGED << handles, total_pages >>
       ELSE /\ handles' = handles \cup {cur}
            /\ total_pages' = pdfs[cur].pages
            /\ ext_pc' = "opened"
            /\ exc' = exc
    /\ UNCHANGED << envVars, fileVars, run, prior_outputs, main_pc, batchVars,
                    cur, start_page, end_page, page_num, chunks >>

\* lines 142-148: open the output file for writing, write the header
WriteHeader ==
    /\ ext_pc = "opened"
    /\ IF pdfs[cur].fault[1] = "write"
         THEN /\ Raise("Exception")
              /\ UNCHANGED << fileVars, start_page >>
         ELSE /\ outExists' = outExists \cup {cur}
              /\ outContent' = [outContent EXCEPT
                     ![cur] = Truncate(@) \o Header(cur, total_pages)]
              /\ start_page' = 0
              /\ ext_pc' = "while"
              /\ exc' = exc
    /\ UNCHANGED << envVars, run, prior_outputs, main_pc, batchVars, cur,
                    total_pages, end_page, page_num, handles, chunks >>

\* lines 150-155: the loop test holds; the chunk's end, the progress line
ChunkBegin ==
    /\ ext_pc = "while"
    /\ start_page < total_pages
    /\ Len(chunks) < MaxChunkLog
    /\ end_page' = ChunkEndPage(start_page, pages_per_chunk, total_pages)
    /\ chunks' = Append(chunks, << start_page, end_page' >>)
    /\ page_num' = start_page
    /\ ext_pc' = "for"
    /\ UNCHANGED << envVars, fileVars, run, prior_outputs, main_pc, batchVars,
                    cur, total_pages, start_page, handles, exc >>

\* lines 155-166: one page: render, OCR, then the three writes
PageStep ==
    /\ ext_pc = "for"
    /\ page_num < end_page
    /\ IF pdfs[cur].fault = <<"page", page_num + 1>>
         THEN /\ Raise("Exception")
              /\ UNCHANGED << outContent, page_num >>
         ELSE /\ outContent' = [outContent EXCEPT
                     ![cur] = @ \o Section(cur, PageLabel(page_num))]
              /\ page_num' = page_num + 1
              /\ UNCHANGED << ext_pc, exc >>
    /\ UNCHANGED << envVars, outExists, run, prior_outputs, main_pc, batchVars,
                    cur, total_pages, start_page, end_page, handles, chunks >>

\* line 168: the range is exhausted
ChunkEnd ==
    /\ ext_pc = "for"
    /\ page_num >= end_page
    /\ start_page' = end_page
    /\ ext_pc' = "while"
    /\ UNCHANGED << envVars, fileVars, run, prior_outputs, main_pc, batchVars,
                    cur, total_pages, end_page, page_num, handles, exc, chunks >>

\* lines 150, 170-172: the loop test fails; close the document, return
ExtractFinish ==
    /\ ext_pc = "while"
    /\ start_page >= total_pages
    /\ handles' = handles \ {cur}
    /\ ext_pc' = "returned"
    /\ UNCHANGED << envVars, fileVars, run, prior_outputs, main_pc, batchVars,
                    cur, total_pages, start_page, end_page, page_num, exc,
                    chunks >>

Call(d) ==
    /\ ext_pc' = "called"
    /\ cur' = d
    /\ total_pages' = 0
    /\ start_page' = 0
    /\ end_page' = 0
    /\ page_num' = 0
    /\ chunks' = << >>
    /\ exc' = "none"

(* --------------------------- process_batch ---------------------------- *)
\* lines 221-229, 58-74
BatchStart ==
    /\ mode = "batch"
    /\ main_pc = "start"
    /\ IF ~books_dir_exists
         THEN /\ main_pc' = "exit"
              /\ UNCHANGED << pdf_files, total_books, index >>
       ELSE IF get_pdf_files = << >>
         THEN /\ main_pc' = "done"
              /\ pdf_files' = get_pdf_files
              /\ UNCHANGED << total_books, index >>
       ELSE /\ pdf_files' = get_pdf_files
            /\ total_books' = Len(get_pdf_files)
            /\ index' = 1
            /\ main_pc' = "loop"
    /\ UNCHANGED << envVars, fileVars, run, prior_outputs, processed, skipped,
                    failed, outcomes, summary, ext_pc, cur, loopVars, handles,
                    exc >>

\* lines 76-84: the document is skipped
BatchSkip ==
    /\ main_pc = "loop"
    /\ index <= total_books
    /\ ShouldSkip(skip_existing, pdf_files[index] \in outExists)
    /\ skipped' = Incr(skipped)
    /\ outcomes' = Append(outcomes, << pdf_files[index], "skipped" >>)
    /\ index' = index + 1
    /\ UNCHANGED << envVars, fileVars, run, prior_outputs, main_pc, pdf_files,
                    total_books, processed, failed, summary, ext_pc, cur,
                    loopVars, handles, exc >>

\* lines 76-92: the extractor is called
BatchCall ==
    /\ main_pc = "loop"
    /\ index <= total_books
    /\ ~ShouldSkip(skip_existing, pdf_files[index] \in outExists)
    /\ Call(pdf_files[index])
    /\ main_pc' = "call"
    /\ UNCHANGED << envVars, fileVars, run, prior_outputs, batchVars, handles >>

\* line 93
BatchProcessed ==
    /\ mode = "batch"
    /\ main_pc = "call"
    /\ ext_pc = "returned"
    /\ processed' = Incr(processed)
    /\ outcomes' = Append(outcomes, << pdf_files[index], "processed" >>)
    /\ index' = index + 1
    /\ main_pc' = "loop"
    /\ ext_pc' = "idle"
    /\ UNCHANGED << envVars, fileVars, run, prior_outputs, pdf_files,
                    total_books, skipped, failed, summary, cur, loopVars,
                    handles, exc >>

\* lines 94-97
BatchFailed ==
    /\ mode = "batch"
    /\ main_pc = "call"
    /\ ext_pc = "raised"
    /\ Catches(exc)
    /\ failed' = Incr(failed)
    /\ outcomes' = Append(outcomes, << pdf_files[index], "failed" >>)
    /\ index' = index + 1
    /\ main_pc' = "loop"
    /\ ext_pc' = "idle"
    /\ exc' = "none"
    /\ UNCHANGED << envVars, fileVars, run, prior_outputs, pdf_files,
                    total_books, processed, skipped, summary, cur, loopVars,
                    handles >>

\* line 94: the handler does not match, the exception leaves process_batch
\* and main()
BatchAbort ==
    /\ mode = "batch"
    /\ main_pc = "call"
    /\ ext_pc = "raised"
    /\ ~Catches(exc)
    /\ main_pc' = "exit"
    /\ UNCHANGED << envVars, fileVars, run, prior_outputs, batchVars, ext_pc,
                    cur, loopVars, handles, exc >>

\* lines 99-104
BatchSummary ==
    /\ main_pc = "loop"
    /\ index > total_books
    /\ summary' = << [processed |-> processed, skipped |-> skipped,
                      failed |-> failed, total |-> total_books] >>
    /\ main_pc' = "done"
    /\ UNCHANGED << envVars, fileVars, run, prior_outputs, pdf_files,
                    total_books, index, processed, skipped, failed, outcomes,
                    ext_pc, cur, loopVars, handles, exc >>

(* ------------------------ main(), single mode ------------------------- *)
\* lines 230-245
SingleCall ==
    /\ mode = "single"
    /\ main_pc = "start"
    /\ Call(1)
    /\ main_pc' = "call"
    /\ UNCHANGED << envVars, fileVars, run, prior_outputs, batchVars, handles >>

\* line 245 returns
SingleReturn ==
    /\ mode = "single"
    /\ main_pc = "call"
    /\ ext_pc = "returned"
    /\ main_pc' = "done"
    /\ ext_pc' = "idle"
    /\ UNCHANGED << envVars, fileVars, run, prior_outputs, batchVars, cur,
                    loopVars, handles, exc >>

\* line 245 raises: nothing in main() handles it
SingleAbort ==
    /\ mode = "single"
    /\ main_pc = "call"
    /\ ext_pc = "raised"
    /\ main_pc' = "exit"
    /\ UNCHANGED << envVars, fileVars, run, prior_outputs, batchVars, ext_pc,
                    cur, loopVars, handles, exc >>

\* lines 248-249: the program is run again with the same command line over
\* the same inputs; the files the earlier run wrote are still there
Rerun ==
    /\ main_pc \in {"done", "exit"}
    /\ run = 1
    /\ run' = 2
    /\ prior_outputs' = outExists
    /\ main_pc' = "start"
    /\ pdf_files' = << >>
    /\ total_books' = 0
    /\ index' = 0
    /\ processed' = 0
    /\ skipped' = 0
    /\ failed' = 0
    /\ outcomes' = << >>
    /\ summary' = << >>
    /\ ext_pc' = "idle"
    /\ cur' = 0
    /\ total_pages' = 0
    /\ start_page' = 0
    /\ end_page' = 0
    /\ page_num' = 0
    /\ handles' = {}
    /\ exc' = "none"
    /\ chunks' = << >>
    /\ UNCHANGED << envVars, fileVars >>

Next ==
    \/ ExtractOpen
    \/ WriteHeader
    \/ ChunkBegin
    \/ PageStep
    \/ ChunkEnd
    \/ ExtractFinish
    \/ BatchStart
    \/ BatchSkip
    \/ BatchCall
    \/ BatchProcessed
    \/ BatchFailed
    \/ BatchAbort
    \/ BatchSummary
    \/ SingleCall
    \/ SingleReturn
    \/ SingleAbort
    \/ Rerun

Spec == Init /\ [][Next]_vars

TypeOK ==
    /\ mode \in {"single", "batch"}
    /\ main_pc \in {"start", "loop", "call", "done", "exit"}
    /\ ext_pc \in {"idle", "called", "opened", "while", "for", "returned",
                   "raised"}
    /\ exc \in {"none", "Exception", "SystemExit"}
    /\ outExists \subseteq DOMAIN pdfs
    /\ handles \subseteq DOMAIN pdfs
    /\ run \in {1, 2}

(* ------------------------------ claims -------------------------------- *)
RECURSIVE PagesUpTo(_, _)
PagesUpTo(d, j) ==
    IF j <= 0 THEN << >> ELSE PagesUpTo(d, j - 1) \o << <<"page", j, 0>>,
                                                       <<"text", d, j>>,
                                                       <<"blank", 0, 0>> >>

Complete(d) == Header(d, pdfs[d].pages) \o PagesUpTo(d, pdfs[d].pages)

Count(what) ==
    Cardinality({ i \in 1..Len(outcomes) : outcomes[i][2] = what })

\* C1: in a batch, a failure raised by the extractor for a document never
\* ends the run: it is caught, counted as failed, and the loop goes on.
C1_FailureIsolated ==
    (mode = "batch" /\ main_pc = "exit") => ext_pc # "raised"

\* C2: a batch run over an existing directory that holds PDFs, with a
\* positive pages_per_chunk, does not end without the final summary.
C2_SummaryEmitted ==
    ( /\ mode = "batch"
      /\ books_dir_exists
      /\ DOMAIN pdfs # {}
      /\ pages_per_chunk > 0
      /\ main_pc \in {"done", "exit"} ) => summary # << >>

\* C3: outside a running extraction no document handle is open: the handle
\* is closed when the call returns and when it raises, and none is open when
\* the next document is started.
C3_HandleClosed ==
    ext_pc \in {"idle", "called", "returned", "raised"} => handles = {}

\* C4: with pages_per_chunk <= 0 the extractor rejects the call, so that it
\* never starts a chunk (a chunk started with such a size does not advance
\* start_page, and the loop over the chunks does not end).
C4_Rejected ==
    pages_per_chunk <= 0 => chunks = << >>

\* C5 as stated: the second of two batch runs with skip_existing reports
\* zero processed and every document skipped.
C5_AllSkipped ==
    ( /\ mode = "batch"
      /\ run = 2
      /\ skip_existing
      /\ pages_per_chunk > 0
      /\ summary # << >> )
        => (summary[1].processed = 0 /\ summary[1].skipped = summary[1].total)

\* C5 amended: in the second of two batch runs with skip_existing nothing is
\* processed; a document is skipped exactly when its output file exists
\* after the first run, the others fail again; the summary counts the output
\* files of the first run as skipped and the rest as failed.
C5_SecondRun ==
    (mode = "batch" /\ run = 2 /\ skip_existing) =>
        /\ processed = 0
        /\ \A i \in 1..Len(outcomes) :
              /\ outcomes[i][2] = "skipped" <=> outcomes[i][1] \in prior_outputs
              /\ outcomes[i][2] = "failed" <=> outcomes[i][1] \notin prior_outputs
        /\ summary # << >> =>
              /\ summary[1].skipped = Cardinality(prior_outputs)
              /\ summary[1].failed = summary[1].total - Cardinality(prior_outputs)

C5_Witness ==
    /\ mode = "batch" /\ run = 2 /\ skip_existing
    /\ summary # << >>
    /\ summary[1].skipped >= 2
    /\ summary[1].failed >= 1

\* C6: a successful extraction with a positive pages_per_chunk leaves the
\* header followed by the sections of pages 1..N, in order, each once; a
\* document without fault, also one of 0 pages, does not fail.
C6_AllPagesInOrder ==
    pages_per_chunk > 0 =>
        /\ ext_pc = "returned" => outContent[cur] = Complete(cur)
        /\ ext_pc = "raised" => pdfs[cur].fault # <<"ok", 0>>

C6_Witness ==
    /\ ext_pc = "returned"
    /\ pages_per_chunk > 0
    /\ pdfs[cur].pages >= 3
    /\ Len(chunks) >= 2
    /\ outContent[cur] = Complete(cur)

\* C7: for a positive pages_per_chunk the chunks satisfy
\* 0 <= start < end <= total_pages, the first starts at 0, each starts where
\* the one before ended, all but the last have pages_per_chunk pages, and
\* when the call returns they reach total_pages.
C7_ChunksPartition ==
    pages_per_chunk > 0 =>
        /\ \A i \in 1..Len(chunks) :
              /\ 0 <= chunks[i][1]
              /\ chunks[i][1] < chunks[i][2]
              /\ chunks[i][2] <= total_pages
              /\ chunks[i][2] - chunks[i][1] <= pages_per_chunk
              /\ i = 1 => chunks[i][1] = 0
              /\ i > 1 => chunks[i][1] = chunks[i - 1][2]
              /\ i < Len(chunks) => chunks[i][2] - chunks[i][1] = pages_per_chunk
        /\ ext_pc = "returned" =>
              IF chunks = << >> THEN total_pages = 0
              ELSE chunks[Len(chunks)][2] = total_pages

C7_Witness ==
    /\ ext_pc = "returned"
    /\ pages_per_chunk > 1
    /\ Len(chunks) >= 2
    /\ chunks[Len(chunks)][2] - chunks[Len(chunks)][1] < pages_per_chunk

\* C8: when a document is visited with skip_existing set and its output
\* file there, it is counted as skipped, the extractor is not called and the
\* output files stay as they are; otherwise the extractor is called for it.
C8_SkipOrExtract ==
    [][ (main_pc = "loop" /\ index <= total_books) =>
          IF skip_existing /\ pdf_files[index] \in outExists
            THEN /\ skipped' = skipped + 1
                 /\ outcomes' = Append(outcomes, << pdf_files[index], "skipped" >>)
                 /\ index' = index + 1
                 /\ ext_pc' = "idle"
                 /\ main_pc' = "loop"
                 /\ outExists' = outExists
                 /\ outContent' = outContent
            ELSE /\ ext_pc' = "called"
                 /\ cur' = pdf_files[index]
                 /\ UNCHANGED << skipped, outcomes, index >> ]_vars

C8_Witness ==
    \E i \in 1..Len(outcomes) :
        /\ outcomes[i][2] = "skipped"
        /\ pdfs[outcomes[i][1]].fault[1] = "page"
        /\ outContent[outcomes[i][1]] # Complete(outcomes[i][1])
        /\ outContent[outcomes[i][1]] # << >>

\* The tally after every step: the outcomes are recorded one per visited
\* document, in list order, and the three counters count them.
C9_Tally ==
    mode = "batch" =>
        /\ \A i \in 1..Len(outcomes) : outcomes[i][1] = pdf_files[i]
        /\ processed = Count("processed")
        /\ skipped = Count("skipped")
        /\ failed = Count("failed")
        /\ processed + skipped + failed = Len(outcomes)
        /\ main_pc = "loop" => Len(outcomes) = index - 1
        /\ main_pc = "call" => Len(outcomes) = index - 1
        /\ summary # << >> =>
              /\ summary[1] = [processed |-> processed, skipped |-> skipped,
                               failed |-> failed, total |-> Len(pdf_files)]
              /\ processed + skipped + failed = summary[1].total
        /\ ( /\ summary # << >>
             /\ run = 1
             /\ DOMAIN pdfs = 1..3
             /\ pdfs[1].fault[1] = "ok"
             /\ pdfs[2].fault[1] = "open"
             /\ pdfs[3].fault[1] = "ok" ) =>
                summary[1] = [processed |-> 2, skipped |-> 0, failed |-> 1,
                              total |-> 3]

\* An outcome once recorded stays as recorded for the rest of the run.
C9_Recorded ==
    [][ run' = run =>
          /\ Len(outcomes') >= Len(outcomes)
          /\ \A i \in 1..Len(outcomes) : outcomes'[i] = outcomes[i] ]_vars

=============================================================================
